---- MODULE Spec2Model ----
(***************************************************************************)
(* Model of the VideoAnalyzer component (src/components/VideoAnalyzer.tsx) *)
(* and of the Gemini service module (src/unnamed/part_000).                *)
(*                                                                         *)
(* Texts are sequences of one-character strings, so that trim(), the       *)
(* regular-expression replacements and the template literals of the code   *)
(* are computed character by character.                                    *)
(***************************************************************************)
EXTENDS Integers, Sequences, FiniteSets, Bags

VARIABLES
    mainInput,       \* useState('')        text box content
    videoFile,       \* useState(null)      selected video file, or NoFile
    summary,         \* useState('')        report slot
    article,         \* useState('')        article slot
    isLoading,       \* useState(null)      "summary" | "article" | "null"
    error,           \* useState('')        error banner
    isThinkingMode,  \* useState(true)
    inflight,        \* bag of provider requests awaited by a handler
    articleSource,   \* the report text the shown article was generated from
    lastOp,          \* the handler or continuation that ran last
    pc,              \* position of a pure-function run: "idle" | "ready" | "cleaned" | "done"
    input,           \* argument of a pure-function run
    output           \* result of a pure-function run

vars == <<mainInput, videoFile, summary, article, isLoading, error,
          isThinkingMode, inflight, articleSource, lastOp, pc, input, output>>

uiVars == <<mainInput, videoFile, summary, article, isLoading, error,
            isThinkingMode, inflight, articleSource, lastOp>>

pureVars == <<pc, input, output>>

\* ------------------------------------------------------------------ bounds

\* Most provider requests outstanding at once.
MaxInFlight == 3

\* ------------------------------------------------------------------ texts

\* JavaScript's \s / String.prototype.trim() whitespace, over the model's alphabet.
IsSpace(c) == c \in {" ", "\n", "\t", "\r"}

RECURSIVE TrimStart(_)
TrimStart(s) ==
    IF s # <<>> /\ IsSpace(Head(s)) THEN TrimStart(Tail(s)) ELSE s

RECURSIVE TrimEnd(_)
TrimEnd(s) ==
    IF s # <<>> /\ IsSpace(s[Len(s)]) THEN TrimEnd(SubSeq(s, 1, Len(s) - 1)) ELSE s

\* String.prototype.trim()
Trim(s) == TrimEnd(TrimStart(s))

\* ------------------------------------------------------------------ component state

NoFile == "null"

\* Files the file dialog can hand to handleFileChange: nothing chosen, a video, another type.
FileChoices ==
    { [present |-> FALSE, name |-> "none", type |-> ""],
      [present |-> TRUE, name |-> "clip.mp4", type |-> "video/mp4"],
      [present |-> TRUE, name |-> "notes.pdf", type |-> "application/pdf"] }

\* file.type.startsWith('video/')
IsVideoType(type) == type \in {"video/mp4"}

\* Texts the user can have in the text box.
TextInputs == {<<>>, <<" ">>, <<"t">>}

\* Report texts the provider can return.
ReportTexts == {<<"A">>, <<"B">>}

\* Article texts the provider can return.
ArticleTexts == {<<"X">>}

ErrNone == ""
ErrNoInput == "Please paste a transcript or upload a video file to analyze."
ErrNotVideo == "Please select a valid video file."
ErrReport == "Failed to generate the report. Please check the console for details."
ErrNoReport == "Please generate a report first."
ErrArticle == "Failed to generate the article. Please check the console for details."

\* ------------------------------------------------------------------ provider requests

\* A request is a call of a service function that a handler awaits.
\* analyzeVideo(videoFile, mainInput): the text is the userPrompt argument.
VideoRequest(file, userPrompt) ==
    [kind |-> "video", file |-> file, content |-> userPrompt, thinking |-> FALSE]

\* analyzeTextContent(mainInput)
TextRequest(textContent) ==
    [kind |-> "text", file |-> NoFile, content |-> textContent, thinking |-> FALSE]

\* generateArticle(summary, isThinkingMode)
ArticleRequest(reportText, thinking) ==
    [kind |-> "article", file |-> NoFile, content |-> reportText, thinking |-> thinking]

\* Mutant of ReportRequest: the video branch is lost, every submit analyses the text.
ReportRequestTextOnly(file, text) == TextRequest(text)

\* handleGenerateReport, the try block: which service function is awaited.
ReportRequest(file, text) ==
    IF file # NoFile THEN VideoRequest(file, text) ELSE TextRequest(text)

IsReportRequest(r) == r.kind \in {"video", "text"}
IsArticleRequest(r) == r.kind = "article"

Add(bag, r) == bag (+) SetToBag({r})
Remove(bag, r) == bag (-) SetToBag({r})

\* Number of outstanding requests that satisfy a kind test.
ReportsInFlight ==
    BagCardinality([r \in {q \in BagToSet(inflight) : IsReportRequest(q)} |-> inflight[r]])
ArticlesInFlight ==
    BagCardinality([r \in {q \in BagToSet(inflight) : IsArticleRequest(q)} |-> inflight[r]])

\* ------------------------------------------------------------------ what the UI renders

\* <Button onClick={handleGenerateReport} disabled={...}>
ReportButtonDisabled == isLoading = "summary" \/ (videoFile = NoFile /\ Trim(mainInput) = <<>>)

\* {summary && ( ... <Button onClick={handleSubmitArticle} disabled={isLoading === 'article'}> )}
ArticleButtonRendered == summary # <<>>
ArticleButtonDisabled == isLoading = "article"

\* ------------------------------------------------------------------ handlers

handleInputChange(text) ==
    /\ mainInput' = text
    /\ lastOp' = "handleInputChange"
    /\ UNCHANGED <<videoFile, summary, article, isLoading, error, isThinkingMode,
                   inflight, articleSource>>

handleFileChange(file) ==
    /\ IF file.present
       THEN IF IsVideoType(file.type)
            THEN /\ videoFile' = file.name
                 /\ mainInput' = <<>>
                 /\ error' = ErrNone
            ELSE /\ error' = ErrNotVideo
                 /\ videoFile' = NoFile
                 /\ UNCHANGED mainInput
       ELSE UNCHANGED <<videoFile, mainInput, error>>
    /\ lastOp' = "handleFileChange"
    /\ UNCHANGED <<summary, article, isLoading, isThinkingMode, inflight, articleSource>>

\* onChange of the thinking-mode checkbox, rendered with the report.
toggleThinkingMode(checked) ==
    /\ summary # <<>>
    /\ isThinkingMode' = checked
    /\ lastOp' = "toggleThinkingMode"
    /\ UNCHANGED <<mainInput, videoFile, summary, article, isLoading, error,
                   inflight, articleSource>>

\* Mutant of handleGenerateReport: the validation tests mainInput without trim().
handleGenerateReportNoTrim ==
    /\ IF videoFile = NoFile /\ mainInput = <<>>
       THEN /\ error' = ErrNoInput
            /\ UNCHANGED <<isLoading, summary, article, articleSource, inflight>>
       ELSE /\ BagCardinality(inflight) < MaxInFlight
            /\ error' = ErrNone
            /\ isLoading' = "summary"
            /\ summary' = <<>>
            /\ article' = <<>>
            /\ articleSource' = <<>>
            /\ inflight' = Add(inflight, ReportRequest(videoFile, mainInput))
    /\ lastOp' = "handleGenerateReport"
    /\ UNCHANGED <<mainInput, videoFile, isThinkingMode>>

\* handleGenerateReport up to its await.
handleGenerateReport ==
    /\ IF videoFile = NoFile /\ Trim(mainInput) = <<>>
       THEN /\ error' = ErrNoInput
            /\ UNCHANGED <<isLoading, summary, article, articleSource, inflight>>
       ELSE /\ BagCardinality(inflight) < MaxInFlight
            /\ error' = ErrNone
            /\ isLoading' = "summary"
            /\ summary' = <<>>
            /\ article' = <<>>
            /\ articleSource' = <<>>
            /\ inflight' = Add(inflight, ReportRequest(videoFile, mainInput))
    /\ lastOp' = "handleGenerateReport"
    /\ UNCHANGED <<mainInput, videoFile, isThinkingMode>>

\* handleGenerateReport after its await: setSummary(result), finally setIsLoading(null).
ReportResolved(r, result) ==
    /\ BagIn(r, inflight) /\ IsReportRequest(r)
    /\ inflight' = Remove(inflight, r)
    /\ summary' = result
    /\ isLoading' = "null"
    /\ lastOp' = "ReportResolved"
    /\ UNCHANGED <<mainInput, videoFile, article, articleSource, error, isThinkingMode>>

\* handleGenerateReport after its await threw: catch, finally.
ReportRejected(r) ==
    /\ BagIn(r, inflight) /\ IsReportRequest(r)
    /\ inflight' = Remove(inflight, r)
    /\ error' = ErrReport
    /\ isLoading' = "null"
    /\ lastOp' = "ReportRejected"
    /\ UNCHANGED <<mainInput, videoFile, summary, article, articleSource, isThinkingMode>>

\* Mutant of handleSubmitArticle: the `if (!summary)` guard is missing.
handleSubmitArticleNoGuard ==
    /\ BagCardinality(inflight) < MaxInFlight
    /\ error' = ErrNone
    /\ isLoading' = "article"
    /\ article' = <<>>
    /\ articleSource' = <<>>
    /\ inflight' = Add(inflight, ArticleRequest(summary, isThinkingMode))
    /\ lastOp' = "handleSubmitArticle"
    /\ UNCHANGED <<mainInput, videoFile, summary, isThinkingMode>>

\* handleSubmitArticle up to its await.
handleSubmitArticle ==
    /\ IF summary = <<>>
       THEN /\ error' = ErrNoReport
            /\ UNCHANGED <<isLoading, article, articleSource, inflight>>
       ELSE /\ BagCardinality(inflight) < MaxInFlight
            /\ error' = ErrNone
            /\ isLoading' = "article"
            /\ article' = <<>>
            /\ articleSource' = <<>>
            /\ inflight' = Add(inflight, ArticleRequest(summary, isThinkingMode))
    /\ lastOp' = "handleSubmitArticle"
    /\ UNCHANGED <<mainInput, videoFile, summary, isThinkingMode>>

\* handleSubmitArticle after its await: setArticle(result), finally setIsLoading(null).
ArticleResolved(r, result) ==
    /\ BagIn(r, inflight) /\ IsArticleRequest(r)
    /\ inflight' = Remove(inflight, r)
    /\ article' = result
    /\ articleSource' = r.content
    /\ isLoading' = "null"
    /\ lastOp' = "ArticleResolved"
    /\ UNCHANGED <<mainInput, videoFile, summary, error, isThinkingMode>>

\* handleSubmitArticle after its await threw: catch, finally.
ArticleRejected(r) ==
    /\ BagIn(r, inflight) /\ IsArticleRequest(r)
    /\ inflight' = Remove(inflight, r)
    /\ error' = ErrArticle
    /\ isLoading' = "null"
    /\ lastOp' = "ArticleRejected"
    /\ UNCHANGED <<mainInput, videoFile, summary, article, articleSource, isThinkingMode>>

\* ------------------------------------------------------------------ user and provider steps

TypeText == \E text \in TextInputs : handleInputChange(text) /\ UNCHANGED pureVars
ChooseFile == \E file \in FileChoices : handleFileChange(file) /\ UNCHANGED pureVars
ToggleThinking == \E checked \in BOOLEAN : toggleThinkingMode(checked) /\ UNCHANGED pureVars

\* A click on Generate Report: a disabled button delivers no click.
ClickGenerateReport ==
    ~ReportButtonDisabled /\ handleGenerateReport /\ UNCHANGED pureVars

\* A click on Generate SEO Article: the button exists only with a report.
ClickGenerateArticle ==
    ArticleButtonRendered /\ ~ArticleButtonDisabled /\ handleSubmitArticle /\ UNCHANGED pureVars

\* The handlers called whatever the buttons show.
CallGenerateReport == handleGenerateReport /\ UNCHANGED pureVars
CallSubmitArticle == handleSubmitArticle /\ UNCHANGED pureVars

ReportSucceeds ==
    \E r \in BagToSet(inflight), result \in ReportTexts :
        ReportResolved(r, result) /\ UNCHANGED pureVars
ReportFails == \E r \in BagToSet(inflight) : ReportRejected(r) /\ UNCHANGED pureVars
ArticleSucceeds ==
    \E r \in BagToSet(inflight), result \in ArticleTexts :
        ArticleResolved(r, result) /\ UNCHANGED pureVars
ArticleFails == \E r \in BagToSet(inflight) : ArticleRejected(r) /\ UNCHANGED pureVars

InitUI ==
    /\ mainInput = <<>>
    /\ videoFile = NoFile
    /\ summary = <<>>
    /\ article = <<>>
    /\ isLoading = "null"
    /\ error = ErrNone
    /\ isThinkingMode = TRUE
    /\ inflight = EmptyBag
    /\ articleSource = <<>>
    /\ lastOp = "mount"

Init ==
    /\ InitUI
    /\ pc = "idle"
    /\ input = <<>>
    /\ output = <<>>

\* The component as the user drives it.
Next ==
    \/ TypeText
    \/ ChooseFile
    \/ ToggleThinking
    \/ ClickGenerateReport
    \/ ClickGenerateArticle
    \/ ReportSucceeds
    \/ ReportFails
    \/ ArticleSucceeds
    \/ ArticleFails

Spec == Init /\ [][Next]_vars

\* The component with its two submit handlers called in any state, also where the
\* button that calls them is disabled or not rendered: every behaviour of Spec is one
\* of SpecHandlers, and the handlers' own guards are reached.
NextHandlers ==
    \/ TypeText
    \/ ChooseFile
    \/ ToggleThinking
    \/ CallGenerateReport
    \/ CallSubmitArticle
    \/ ReportSucceeds
    \/ ReportFails
    \/ ArticleSucceeds
    \/ ArticleFails

SpecHandlers == Init /\ [][NextHandlers]_vars

\* ------------------------------------------------------------------ claims on the component

\* The requests a step starts.
Started == inflight' (-) inflight

\* C1: under every interleaving of clicks and completions there are never two
\* report requests in flight at once and never two article requests in flight at once.
C1_NoConcurrentSameKind == ReportsInFlight <= 1 /\ ArticlesInFlight <= 1

\* C2: right after a report request (an article request) has failed, the report
\* slot (the article slot) is empty and isLoading is null.
C2_FailureLeavesSlotEmpty ==
    /\ lastOp = "ReportRejected" => (summary = <<>> /\ isLoading = "null")
    /\ lastOp = "ArticleRejected" => (article = <<>> /\ isLoading = "null")

\* C6: a submit of handleGenerateReport starts one video-analysis request (the
\* selected file, the text box only as user instructions) exactly when a file is
\* selected, one text-analysis request (the text box content) exactly when no file
\* is selected and the text is not blank, and never both.
C6_ReportPathFollowsSelection ==
    [][lastOp' = "handleGenerateReport" =>
        /\ BagCardinality(Started) <= 1
        /\ videoFile # NoFile =>
             Started = SetToBag({[kind |-> "video", file |-> videoFile,
                                  content |-> mainInput, thinking |-> FALSE]})
        /\ (videoFile = NoFile /\ Trim(mainInput) # <<>>) =>
             Started = SetToBag({[kind |-> "text", file |-> NoFile,
                                  content |-> mainInput, thinking |-> FALSE]})
        /\ \A r \in BagToSet(Started) :
             /\ r.kind = "video" <=> videoFile # NoFile
             /\ r.kind = "text" <=> (videoFile = NoFile /\ Trim(mainInput) # <<>>)
      ]_vars

\* C6 witness: a video request was just started while the text box held instructions.
C6_Witness ==
    /\ lastOp = "handleGenerateReport"
    /\ videoFile # NoFile
    /\ mainInput # <<>>
    /\ \E r \in BagToSet(inflight) :
         r.kind = "video" /\ r.file = videoFile /\ r.content = mainInput

\* C7: an article request starts only while the report slot is non-empty and carries
\* the report slot's content; a submit with an empty report slot sets the error
\* 'Please generate a report first.' and starts nothing.
C7_ArticleNeedsReport ==
    [][/\ \A r \in BagToSet(Started) :
            r.kind = "article" => (summary # <<>> /\ r.content = summary)
       /\ (lastOp' = "handleSubmitArticle" /\ summary = <<>>) =>
            (error' = ErrNoReport /\ inflight' = inflight)
       /\ (lastOp' = "handleSubmitArticle" /\ summary # <<>>) =>
            \E r \in BagToSet(Started) : r.kind = "article"
      ]_vars

\* C7 witness: with an article request outstanding and the report slot cleared by a
\* regeneration, a further submit was refused.
C7_Witness ==
    /\ lastOp = "handleSubmitArticle"
    /\ summary = <<>>
    /\ error = ErrNoReport
    /\ ArticlesInFlight = 1

\* C8: Generate Report submitted with no file and an empty or whitespace-only text
\* box shows the input-validation error at once and starts no request.
C8_BlankSubmitRejected ==
    [][(lastOp' = "handleGenerateReport" /\ videoFile = NoFile /\ Trim(mainInput) = <<>>) =>
        /\ error' = ErrNoInput
        /\ inflight' = inflight
        /\ isLoading' = isLoading
      ]_vars

\* C8 witness: the submit was refused on a whitespace-only text box.
C8_Witness ==
    /\ lastOp = "handleGenerateReport"
    /\ videoFile = NoFile
    /\ mainInput = <<" ">>
    /\ error = ErrNoInput
    /\ inflight = EmptyBag

\* C10: a shown article was generated from the text now in the report slot.
C10_ArticleFromCurrentReport == article # <<>> => articleSource = summary

\* C11: the loading state is non-null while a report or article request is in
\* flight, so no completion returns the UI to idle with a request outstanding.
C11_LoadingWhileInFlight == inflight # EmptyBag => isLoading # "null"

\* ------------------------------------------------------------------ strings

Min(S) == CHOOSE x \in S : \A y \in S : x <= y

\* s.startsWith(p, i - 1): p occurs in s at index i.
StartsWithAt(s, i, p) ==
    /\ i >= 1
    /\ i + Len(p) - 1 <= Len(s)
    /\ SubSeq(s, i, i + Len(p) - 1) = p

\* s.slice(i - 1): the rest of s from index i.
From(s, i) == SubSeq(s, i, Len(s))

\* What "." does not match in a JavaScript regular expression (no s flag).
IsLineTerminator(c) == c \in {"\n", "\r"}

\* Smallest j >= from where p occurs with no line terminator in s[from..j-1], or 0:
\* the end of a lazy "(.*?)" followed by the literal p.
LazyClose(s, from, p) ==
    LET ends == {j \in from..Len(s) :
                    /\ StartsWithAt(s, j, p)
                    /\ \A k \in from..(j - 1) : ~IsLineTerminator(s[k])}
    IN IF ends = {} THEN 0 ELSE Min(ends)

\* Smallest j >= from with s[j] = c, or 0: the end of a greedy "[^c]+" or "[^c]*".
FirstIndexOf(s, from, c) ==
    LET at == {j \in from..Len(s) : s[j] = c}
    IN IF at = {} THEN 0 ELSE Min(at)

\* Smallest j >= from with s[j] whitespace, or Len(s) + 1: one past a greedy "[^\s]+".
NonSpaceEnd(s, from) ==
    LET at == {j \in from..Len(s) : IsSpace(s[j])}
    IN IF at = {} THEN Len(s) + 1 ELSE Min(at)

\* ------------------------------------------------------------------ processInlines

StrongOpen ==
    <<"<", "s", "t", "r", "o", "n", "g", ">">>
StrongClose ==
    <<"<", "/", "s", "t", "r", "o", "n", "g", ">">>
EmOpen ==
    <<"<", "e", "m", ">">>
EmClose ==
    <<"<", "/", "e", "m", ">">>
\* The replacement of a markdown link, around $2 and $1.
LinkOpen ==
    <<"<", "a", " ", "h", "r", "e", "f", "=", "\"">>
LinkMid ==
    <<"\"", " ", "t", "a", "r", "g", "e", "t", "=", "\"", "_", "b", "l", "a", "n", "k",
      "\"", " ", "r", "e", "l", "=", "\"", "n", "o", "o", "p", "e", "n", "e", "r", " ",
      "n", "o", "r", "e", "f", "e", "r", "r", "e", "r", "\"", " ", "c", "l", "a", "s",
      "s", "=", "\"", "t", "e", "x", "t", "-", "b", "l", "u", "e", "-", "4", "0", "0",
      " ", "h", "o", "v", "e", "r", ":", "u", "n", "d", "e", "r", "l", "i", "n", "e",
      "\"", ">">>
LinkClose ==
    <<"<", "/", "a", ">">>
\* The replacement of a bare URL, around the two $&.
UrlOpen ==
    <<"<", "a", " ", "h", "r", "e", "f", "=", "\"">>
UrlMid ==
    <<"\"", " ", "t", "a", "r", "g", "e", "t", "=", "\"", "_", "b", "l", "a", "n", "k",
      "\"", " ", "r", "e", "l", "=", "\"", "n", "o", "o", "p", "e", "n", "e", "r", " ",
      "n", "o", "r", "e", "f", "e", "r", "r", "e", "r", "\"", " ", "c", "l", "a", "s",
      "s", "=", "\"", "t", "e", "x", "t", "-", "b", "l", "u", "e", "-", "4", "0", "0",
      " ", "h", "o", "v", "e", "r", ":", "u", "n", "d", "e", "r", "l", "i", "n", "e",
      " ", "b", "r", "e", "a", "k", "-", "a", "l", "l", "\"", ">">>
UrlClose ==
    <<"<", "/", "a", ">">>

HttpScheme == <<"h", "t", "t", "p", ":", "/", "/">>
HttpsScheme == <<"h", "t", "t", "p", "s", ":", "/", "/">>
HrefDouble == <<"h", "r", "e", "f", "=", "\"">>
HrefSingle == <<"h", "r", "e", "f", "=", "'">>

\* text.replace(/<mark>(.*?)<mark>/g, open + '$1' + close), scanning from index i:
\* the bold (mark "**") and the italic (mark "_") replacements.
\* First index >= i where /<mark>(.*?)<mark>/ matches, or 0.
NextSpan(s, i, mark) ==
    LET at == {p \in i..Len(s) :
                  StartsWithAt(s, p, mark) /\ LazyClose(s, p + Len(mark), mark) # 0}
    IN IF at = {} THEN 0 ELSE Min(at)

\* text.replace(/<mark>(.*?)<mark>/g, open + '$1' + close), scanning from index i:
\* the bold (mark "**") and the italic (mark "_") replacements.
RECURSIVE ReplaceSpans(_, _, _, _, _)
ReplaceSpans(s, i, mark, open, close) ==
    LET p == NextSpan(s, i, mark)
    IN IF p = 0 THEN From(s, i)
       ELSE LET j == LazyClose(s, p + Len(mark), mark)
            IN SubSeq(s, i, p - 1) \o open \o SubSeq(s, p + Len(mark), j - 1) \o close
               \o ReplaceSpans(s, j + Len(mark), mark, open, close)

\* .replace(/\*\*(.*?)\*\*/g, '<strong>$1</strong>')
ReplaceBold(s) == ReplaceSpans(s, 1, <<"*", "*">>, StrongOpen, StrongClose)

\* .replace(/_(.*?)_/g, '<em>$1</em>')
ReplaceItalic(s) == ReplaceSpans(s, 1, <<"_">>, EmOpen, EmClose)

\* The match of /\[([^\]]+)\]\(([^)]+)\)/ at index i: <<end of label, end of match>>, or <<0, 0>>.
LinkMatch(s, i) ==
    IF i > Len(s) \/ s[i] # "[" THEN <<0, 0>>
    ELSE LET j == FirstIndexOf(s, i + 1, "]")
         IN IF j = 0 \/ j = i + 1 \/ j + 1 > Len(s) \/ s[j + 1] # "(" THEN <<0, 0>>
            ELSE LET k == FirstIndexOf(s, j + 2, ")")
                 IN IF k = 0 \/ k = j + 2 THEN <<0, 0>> ELSE <<j, k>>

\* First index >= i where the markdown-link pattern matches, or 0.
NextLink(s, i) ==
    LET at == {p \in i..Len(s) : LinkMatch(s, p)[2] # 0}
    IN IF at = {} THEN 0 ELSE Min(at)

\* .replace(/\[([^\]]+)\]\(([^)]+)\)/g, '<a href="$2" ...>$1</a>')
RECURSIVE ReplaceLinks(_, _)
ReplaceLinks(s, i) ==
    LET p == NextLink(s, i)
    IN IF p = 0 THEN From(s, i)
       ELSE LET m == LinkMatch(s, p)
            IN SubSeq(s, i, p - 1) \o LinkOpen \o SubSeq(s, m[1] + 2, m[2] - 1) \o LinkMid
               \o SubSeq(s, p + 1, m[1] - 1) \o LinkClose \o ReplaceLinks(s, m[2] + 1)

\* The match of /(?<!href=")(?<!href=')https?:\/\/[^\s]+/ at index i: its last index, or 0.
UrlMatchEnd(s, i) ==
    LET n == IF StartsWithAt(s, i, HttpsScheme) THEN Len(HttpsScheme)
             ELSE IF StartsWithAt(s, i, HttpScheme) THEN Len(HttpScheme) ELSE 0
    IN IF n = 0 THEN 0
       ELSE IF StartsWithAt(s, i - Len(HrefDouble), HrefDouble) THEN 0
       ELSE IF StartsWithAt(s, i - Len(HrefSingle), HrefSingle) THEN 0
       ELSE IF NonSpaceEnd(s, i + n) = i + n THEN 0
       ELSE NonSpaceEnd(s, i + n) - 1

\* First index >= i where the bare-URL pattern matches, or 0.
NextUrl(s, i) ==
    LET at == {p \in i..Len(s) : UrlMatchEnd(s, p) # 0}
    IN IF at = {} THEN 0 ELSE Min(at)

\* .replace(/(?<!href=")(?<!href=')https?:\/\/[^\s]+/g, '<a href="$&" ...>$&</a>')
RECURSIVE ReplaceUrls(_, _)
ReplaceUrls(s, i) ==
    LET p == NextUrl(s, i)
    IN IF p = 0 THEN From(s, i)
       ELSE LET e == UrlMatchEnd(s, p)
            IN SubSeq(s, i, p - 1) \o UrlOpen \o SubSeq(s, p, e) \o UrlMid \o SubSeq(s, p, e)
               \o UrlClose \o ReplaceUrls(s, e + 1)

processInlines(text) ==
    ReplaceUrls(ReplaceLinks(ReplaceItalic(ReplaceBold(text)), 1), 1)

\* ------------------------------------------------------------------ processInlines on link lines

\* Most links and bare URLs on one line.
MaxItems == 3

UrlA ==
    <<"h", "t", "t", "p", ":", "/", "/", "a", ".", "c", "o", "m">>
UrlB ==
    <<"h", "t", "t", "p", "s", ":", "/", "/", "b", ".", "c", "o", "m">>
\* The start and the end of a hyperlink element in the output.
AnchorTag ==
    <<"<", "a", " ">>
AnchorEnd ==
    <<"<", "/", "a", ">">>

\* A line item: a markdown link [label](url), or a bare URL.
LinkItems == {[kind |-> "link", label |-> l, url |-> u] : l \in {<<"x">>, UrlA}, u \in {UrlA, UrlB}}
UrlItems == {[kind |-> "url", label |-> u, url |-> u] : u \in {UrlA, UrlB}}
InlineInputs == UNION {[1..n -> LinkItems \cup UrlItems] : n \in 1..MaxItems}

\* The markdown text of an item, as analyzeTextContent writes a source: `[${label}](${url})`.
ItemText(it) ==
    IF it.kind = "link" THEN <<"[">> \o it.label \o <<"]", "(">> \o it.url \o <<")">>
    ELSE it.url

\* The items of a line, separated by one blank.
RECURSIVE LineOf(_)
LineOf(items) ==
    IF items = <<>> THEN <<>>
    ELSE IF Len(items) = 1 THEN ItemText(items[1])
    ELSE ItemText(items[1]) \o <<" ">> \o LineOf(Tail(items))

InitInline ==
    /\ InitUI
    /\ pc = "ready"
    /\ input \in InlineInputs
    /\ output = <<>>

\* processInlines(line), as a table cell, a list item or a paragraph calls it.
RunInline ==
    /\ pc = "ready"
    /\ output' = processInlines(LineOf(input))
    /\ pc' = "done"
    /\ UNCHANGED <<input, uiVars>>

SpecInline == InitInline /\ [][RunInline]_vars

\* The indices where p occurs in s.
Occurrences(s, p) == {i \in 1..Len(s) : StartsWithAt(s, i, p)}

\* The value of the href attribute opened at index i: up to the next double quote.
HrefAt(s, i) ==
    LET q == FirstIndexOf(s, i + Len(LinkOpen), "\"")
    IN IF q = 0 THEN From(s, i + Len(LinkOpen)) ELSE SubSeq(s, i + Len(LinkOpen), q - 1)

\* The k-th smallest element of a set of numbers.
RECURSIVE Nth(_, _)
Nth(S, k) == IF k = 1 THEN Min(S) ELSE Nth(S \ {Min(S)}, k - 1)

\* No hyperlink element opens inside another: after each "<a " comes "</a>" before the next "<a ".
NoNestedAnchor(s) ==
    \A i \in Occurrences(s, AnchorTag) :
        \E c \in Occurrences(s, AnchorEnd) :
            /\ c > i
            /\ \A j \in Occurrences(s, AnchorTag) : ~(i < j /\ j < c)

\* C4: a line of markdown links and bare URLs separated by whitespace gives one
\* hyperlink element per item, in order, with the item's URL as target, and no
\* hyperlink element inside another or inside an href attribute.
C4_OneAnchorPerItem ==
    pc = "done" =>
        /\ Cardinality(Occurrences(output, AnchorTag)) = Len(input)
        /\ Cardinality(Occurrences(output, AnchorEnd)) = Len(input)
        /\ \A k \in 1..Len(input) :
             /\ k <= Cardinality(Occurrences(output, LinkOpen))
             /\ HrefAt(output, Nth(Occurrences(output, LinkOpen), k)) = input[k].url
        /\ NoNestedAnchor(output)

\* ------------------------------------------------------------------ parseMarkdownToHtml

\* The character U+0060 (grave accent), which a TLA+ string cannot hold.
Tick == "U+0060"

\* `<th class="...">${processInlines(h)}</th>`
ThOpen ==
    <<"<", "t", "h", " ", "c", "l", "a", "s", "s", "=", "\"", "p", "-", "3", " ", "b",
      "o", "r", "d", "e", "r", "-", "b", " ", "b", "o", "r", "d", "e", "r", "-", "n",
      "e", "u", "t", "r", "a", "l", "-", "7", "0", "0", " ", "t", "e", "x", "t", "-",
      "l", "e", "f", "t", " ", "f", "o", "n", "t", "-", "s", "e", "m", "i", "b", "o",
      "l", "d", " ", "b", "g", "-", "n", "e", "u", "t", "r", "a", "l", "-", "8", "0",
      "0", "/", "5", "0", "\"", ">">>
ThClose ==
    <<"<", "/", "t", "h", ">">>
\* `<td class="...">${processInlines(cell)}</td>`
TdOpen ==
    <<"<", "t", "d", " ", "c", "l", "a", "s", "s", "=", "\"", "p", "-", "3", " ", "b",
      "o", "r", "d", "e", "r", "-", "b", " ", "b", "o", "r", "d", "e", "r", "-", "n",
      "e", "u", "t", "r", "a", "l", "-", "8", "0", "0", " ", "a", "l", "i", "g", "n",
      "-", "t", "o", "p", "\"", ">">>
TdClose ==
    <<"<", "/", "t", "d", ">">>
\* `<tr>${tds}</tr>`
TrOpen ==
    <<"<", "t", "r", ">">>
TrClose ==
    <<"<", "/", "t", "r", ">">>
\* The table template literal, around ${ths} and ${trs}.
TableOpen ==
    <<"\n", " ", " ", " ", " ", " ", " ", " ", " ", " ", " ", " ", " ", " ", " ", " ",
      " ", " ", " ", " ", " ", "<", "d", "i", "v", " ", "c", "l", "a", "s", "s", "=",
      "\"", "o", "v", "e", "r", "f", "l", "o", "w", "-", "x", "-", "a", "u", "t", "o",
      " ", "m", "y", "-", "4", " ", "r", "o", "u", "n", "d", "e", "d", "-", "l", "g",
      " ", "b", "o", "r", "d", "e", "r", " ", "b", "o", "r", "d", "e", "r", "-", "n",
      "e", "u", "t", "r", "a", "l", "-", "8", "0", "0", "\"", ">", "\n", " ", " ", " ",
      " ", " ", " ", " ", " ", " ", " ", " ", " ", " ", " ", " ", " ", " ", " ", " ",
      " ", " ", " ", " ", " ", "<", "t", "a", "b", "l", "e", " ", "c", "l", "a", "s",
      "s", "=", "\"", "w", "-", "f", "u", "l", "l", " ", "t", "e", "x", "t", "-", "s",
      "m", "\"", ">", "\n", " ", " ", " ", " ", " ", " ", " ", " ", " ", " ", " ", " ",
      " ", " ", " ", " ", " ", " ", " ", " ", " ", " ", " ", " ", " ", " ", " ", " ",
      "<", "t", "h", "e", "a", "d", " ", "c", "l", "a", "s", "s", "=", "\"", "b", "g",
      "-", "n", "e", "u", "t", "r", "a", "l", "-", "8", "0", "0", "/", "5", "0", "\"",
      ">", "\n", " ", " ", " ", " ", " ", " ", " ", " ", " ", " ", " ", " ", " ", " ",
      " ", " ", " ", " ", " ", " ", " ", " ", " ", " ", " ", " ", " ", " ", " ", " ",
      " ", " ", "<", "t", "r", ">">>
TableMid ==
    <<"<", "/", "t", "r", ">", "\n", " ", " ", " ", " ", " ", " ", " ", " ", " ", " ",
      " ", " ", " ", " ", " ", " ", " ", " ", " ", " ", " ", " ", " ", " ", " ", " ",
      " ", " ", "<", "/", "t", "h", "e", "a", "d", ">", "\n", " ", " ", " ", " ", " ",
      " ", " ", " ", " ", " ", " ", " ", " ", " ", " ", " ", " ", " ", " ", " ", " ",
      " ", " ", " ", " ", " ", " ", " ", "<", "t", "b", "o", "d", "y", ">">>
TableClose ==
    <<"<", "/", "t", "b", "o", "d", "y", ">", "\n", " ", " ", " ", " ", " ", " ", " ",
      " ", " ", " ", " ", " ", " ", " ", " ", " ", " ", " ", " ", " ", " ", " ", " ",
      " ", "<", "/", "t", "a", "b", "l", "e", ">", "\n", " ", " ", " ", " ", " ", " ",
      " ", " ", " ", " ", " ", " ", " ", " ", " ", " ", " ", " ", " ", " ", "<", "/",
      "d", "i", "v", ">", "\n", " ", " ", " ", " ", " ", " ", " ", " ", " ", " ", " ",
      " ", " ", " ", " ", " ">>
H3Open ==
    <<"<", "h", "3", " ", "c", "l", "a", "s", "s", "=", "\"", "t", "e", "x", "t", "-",
      "l", "g", " ", "f", "o", "n", "t", "-", "s", "e", "m", "i", "b", "o", "l", "d",
      " ", "m", "y", "-", "2", "\"", ">">>
H3Close ==
    <<"<", "/", "h", "3", ">">>
H2Open ==
    <<"<", "h", "2", " ", "c", "l", "a", "s", "s", "=", "\"", "t", "e", "x", "t", "-",
      "x", "l", " ", "f", "o", "n", "t", "-", "s", "e", "m", "i", "b", "o", "l", "d",
      " ", "m", "y", "-", "3", " ", "b", "o", "r", "d", "e", "r", "-", "b", " ", "b",
      "o", "r", "d", "e", "r", "-", "n", "e", "u", "t", "r", "a", "l", "-", "6", "0",
      "0", " ", "p", "b", "-", "1", "\"", ">">>
H2Close ==
    <<"<", "/", "h", "2", ">">>
H1Open ==
    <<"<", "h", "1", " ", "c", "l", "a", "s", "s", "=", "\"", "t", "e", "x", "t", "-",
      "2", "x", "l", " ", "f", "o", "n", "t", "-", "b", "o", "l", "d", " ", "m", "y",
      "-", "4", "\"", ">">>
H1Close ==
    <<"<", "/", "h", "1", ">">>
QuoteOpen ==
    <<"<", "b", "l", "o", "c", "k", "q", "u", "o", "t", "e", " ", "c", "l", "a", "s",
      "s", "=", "\"", "b", "o", "r", "d", "e", "r", "-", "l", "-", "4", " ", "b", "o",
      "r", "d", "e", "r", "-", "n", "e", "u", "t", "r", "a", "l", "-", "6", "0", "0",
      " ", "p", "l", "-", "4", " ", "m", "y", "-", "4", " ", "i", "t", "a", "l", "i",
      "c", " ", "t", "e", "x", "t", "-", "n", "e", "u", "t", "r", "a", "l", "-", "4",
      "0", "0", "\"", ">">>
QuoteClose ==
    <<"<", "/", "b", "l", "o", "c", "k", "q", "u", "o", "t", "e", ">">>
LiOpen ==
    <<"<", "l", "i", " ", "c", "l", "a", "s", "s", "=", "\"", "p", "b", "-", "1", "\"",
      ">">>
LiClose ==
    <<"<", "/", "l", "i", ">">>
UlOpen ==
    <<"<", "u", "l", " ", "c", "l", "a", "s", "s", "=", "\"", "l", "i", "s", "t", "-",
      "d", "i", "s", "c", " ", "l", "i", "s", "t", "-", "i", "n", "s", "i", "d", "e",
      " ", "s", "p", "a", "c", "e", "-", "y", "-", "1", " ", "m", "y", "-", "2", "\"", ">">>
UlClose ==
    <<"<", "/", "u", "l", ">">>
OlOpen ==
    <<"<", "o", "l", " ", "c", "l", "a", "s", "s", "=", "\"", "l", "i", "s", "t", "-",
      "d", "e", "c", "i", "m", "a", "l", " ", "l", "i", "s", "t", "-", "i", "n", "s",
      "i", "d", "e", " ", "s", "p", "a", "c", "e", "-", "y", "-", "1", " ", "m", "y",
      "-", "2", "\"", ">">>
OlClose ==
    <<"<", "/", "o", "l", ">">>
POpen ==
    <<"<", "p", ">">>
PClose ==
    <<"<", "/", "p", ">">>
LineBreak ==
    <<"<", "b", "r", " ", "/", ">">>
Fence ==
    <<Tick, Tick, Tick>>
FenceMarkdown ==
    <<Tick, Tick, Tick, "m", "a", "r", "k", "d", "o", "w", "n", "\n">>

\* Smallest index >= q whose character is not whitespace, or Len(s) + 1: past a greedy "\s*".
SkipSpaces(s, q) ==
    LET at == {j \in q..Len(s) : ~IsSpace(s[j])}
    IN IF at = {} THEN Len(s) + 1 ELSE Min(at)

\* Smallest index >= q whose character is not in cs, or Len(s) + 1: past a greedy "[cs]*".
SkipChars(s, q, cs) ==
    LET at == {j \in q..Len(s) : s[j] \notin cs}
    IN IF at = {} THEN Len(s) + 1 ELSE Min(at)

\* s[q] = c, false past the end.
CharAt(s, q, c) == q >= 1 /\ q <= Len(s) /\ s[q] = c

Digits == {"0", "1", "2", "3", "4", "5", "6", "7", "8", "9"}

\* array.join(sep) of an array of texts.
RECURSIVE Join(_, _)
Join(parts, sep) ==
    IF parts = <<>> THEN <<>>
    ELSE IF Len(parts) = 1 THEN parts[1]
    ELSE parts[1] \o sep \o Join(Tail(parts), sep)

\* First index >= i where the fence pattern /```markdown\n|```/ matches, or 0.
NextFence(s, i) ==
    LET at == {p \in i..Len(s) : StartsWithAt(s, p, Fence)}
    IN IF at = {} THEN 0 ELSE Min(at)

\* markdown.replace(/```markdown\n|```/g, '')
RECURSIVE RemoveFences(_, _)
RemoveFences(s, i) ==
    LET p == NextFence(s, i)
    IN IF p = 0 THEN From(s, i)
       ELSE SubSeq(s, i, p - 1)
            \o RemoveFences(s, IF StartsWithAt(s, p, FenceMarkdown)
                               THEN p + Len(FenceMarkdown) ELSE p + Len(Fence))

\* const cleanMarkdown = markdown.replace(/```markdown\n|```/g, '').trim()
cleanMarkdown(markdown) == Trim(RemoveFences(markdown, 1))

\* Length of one "\r?\n" at index i, or 0.
NewlineLen(s, i) ==
    IF CharAt(s, i, "\r") /\ CharAt(s, i + 1, "\n") THEN 2
    ELSE IF CharAt(s, i, "\n") THEN 1 ELSE 0

\* The greedy run "(\r?\n)*" from index i: <<repetitions, index after the run, start of the last one>>.
RECURSIVE NewlineRun(_, _, _, _)
NewlineRun(s, i, n, last) ==
    IF NewlineLen(s, i) = 0 THEN <<n, i, last>>
    ELSE NewlineRun(s, i + NewlineLen(s, i), n + 1, i)

\* First index >= i where /(\r?\n){2,}/ matches, or 0.
NextBlockBreak(s, i) ==
    LET at == {p \in i..Len(s) : NewlineRun(s, p, 0, 0)[1] >= 2}
    IN IF at = {} THEN 0 ELSE Min(at)

\* cleanMarkdown.split(/(\r?\n){2,}/): the pieces, each break followed by its captured group.
RECURSIVE SplitBlocks(_, _)
SplitBlocks(s, i) ==
    LET p == NextBlockBreak(s, i)
    IN IF p = 0 THEN <<From(s, i)>>
       ELSE LET run == NewlineRun(s, p, 0, 0)
            IN <<SubSeq(s, i, p - 1), SubSeq(s, run[3], run[2] - 1)>> \o SplitBlocks(s, run[2])

\* Length of the line break /\r?\n|\r/ at index i, or 0.
LineBreakLen(s, i) ==
    IF NewlineLen(s, i) # 0 THEN NewlineLen(s, i)
    ELSE IF CharAt(s, i, "\r") THEN 1 ELSE 0

\* text.split(/\r?\n|\r/)
RECURSIVE SplitLines(_, _)
SplitLines(s, i) ==
    LET at == {p \in i..Len(s) : LineBreakLen(s, p) # 0}
    IN IF at = {} THEN <<From(s, i)>>
       ELSE <<SubSeq(s, i, Min(at) - 1)>> \o SplitLines(s, Min(at) + LineBreakLen(s, Min(at)))

\* text.split(c) on a one-character separator.
RECURSIVE SplitOn(_, _, _)
SplitOn(s, i, c) ==
    LET p == FirstIndexOf(s, i, c)
    IN IF p = 0 THEN <<From(s, i)>> ELSE <<SubSeq(s, i, p - 1)>> \o SplitOn(s, p + 1, c)

\* array.join('') of an array of texts.
RECURSIVE Concat(_)
Concat(parts) == IF parts = <<>> THEN <<>> ELSE parts[1] \o Concat(Tail(parts))

\* row.split('|').slice(1, -1).map(cell => cell.trim())
Cells(row) ==
    LET parts == SplitOn(row, 1, "|")
    IN [k \in 1..(IF Len(parts) >= 2 THEN Len(parts) - 2 ELSE 0) |-> Trim(parts[k + 1])]

\* One "\s*:?-+:?\s*\|" at index q: the index after it, or 0.
SeparatorCellEnd(s, q) ==
    LET q1 == SkipSpaces(s, q)
        q2 == IF CharAt(s, q1, ":") THEN q1 + 1 ELSE q1
        q3 == SkipChars(s, q2, {"-"})
        q4 == IF CharAt(s, q3, ":") THEN q3 + 1 ELSE q3
        q5 == SkipSpaces(s, q4)
    IN IF q3 > q2 /\ CharAt(s, q5, "|") THEN q5 + 1 ELSE 0

\* /\|(?:\s*:?-+:?\s*\|)+/.test(row): the pattern is searched anywhere in the row.
IsSeparatorMatch(row) ==
    \E p \in 1..Len(row) : row[p] = "|" /\ SeparatorCellEnd(row, p + 1) # 0

\* rows.findIndex(row => /.../.test(row)): JavaScript's index, -1 for none.
SeparatorIndex(rows) ==
    LET at == {k \in 1..Len(rows) : IsSeparatorMatch(rows[k])}
    IN IF at = {} THEN -1 ELSE Min(at) - 1

\* trimmedBlock.split(/\r?\n|\r/).filter(row => row.trim().startsWith('|'))
IsPipeRow(row) == CharAt(Trim(row), 1, "|")
TableRows(trimmedBlock) == SelectSeq(SplitLines(trimmedBlock, 1), IsPipeRow)

\* cells.map(cell => open + processInlines(cell) + close).join('')
RenderCells(cells, open, close) ==
    Concat([k \in 1..Len(cells) |-> open \o processInlines(cells[k]) \o close])

\* bodyRows.map(rowStr => ...): a row without cells, or with empty cells only, gives ''.
RenderRow(rowStr) ==
    LET cells == Cells(rowStr)
    IN IF Len(cells) = 0 \/ \A k \in 1..Len(cells) : cells[k] = <<>> THEN <<>>
       ELSE TrOpen \o RenderCells(cells, TdOpen, TdClose) \o TrClose

RenderRows(rows) == Concat([k \in 1..Len(rows) |-> RenderRow(rows[k])])

\* The table branch once separatorIndex > 0.
RenderTable(rows, separatorIndex) ==
    TableOpen \o RenderCells(Cells(rows[1]), ThOpen, ThClose) \o TableMid
    \o RenderRows(SubSeq(rows, separatorIndex + 2, Len(rows))) \o TableClose

\* line.replace(/^>\s?/, '')
StripQuote(line) ==
    IF CharAt(line, 1, ">")
    THEN (IF Len(line) >= 2 /\ IsSpace(line[2]) THEN From(line, 3) ELSE From(line, 2))
    ELSE line

\* item.replace(/^\s*[-*]\s*/, '')
StripBullet(item) ==
    LET q == SkipSpaces(item, 1)
    IN IF CharAt(item, q, "-") \/ CharAt(item, q, "*")
       THEN From(item, SkipSpaces(item, q + 1)) ELSE item

\* item.replace(/^\s*\d+\.\s*/, '')
StripNumber(item) ==
    LET q == SkipSpaces(item, 1)
        d == SkipChars(item, q, Digits)
    IN IF d > q /\ CharAt(item, d, ".") THEN From(item, SkipSpaces(item, d + 1)) ELSE item

\* `<li class="pb-1">${processInlines(content)}</li>` of each item's content, joined.
RenderItems(contents) ==
    Concat([k \in 1..Len(contents) |-> LiOpen \o processInlines(contents[k]) \o LiClose])

\* text.replace(/\n/g, '<br />')
RECURSIVE ReplaceNewlines(_, _)
ReplaceNewlines(s, i) ==
    LET p == FirstIndexOf(s, i, "\n")
    IN IF p = 0 THEN From(s, i)
       ELSE SubSeq(s, i, p - 1) \o LineBreak \o ReplaceNewlines(s, p + 1)

\* trimmedBlock.match(/^(\*|-)\s/)
IsBulletBlock(t) == (CharAt(t, 1, "*") \/ CharAt(t, 1, "-")) /\ Len(t) >= 2 /\ IsSpace(t[2])

\* trimmedBlock.match(/^\d+\.\s/)
IsNumberBlock(t) ==
    LET d == SkipChars(t, 1, Digits)
    IN d > 1 /\ CharAt(t, d, ".") /\ d + 1 <= Len(t) /\ IsSpace(t[d + 1])

\* The paragraph fallback.
RenderParagraph(t) == POpen \o ReplaceNewlines(processInlines(t), 1) \o PClose

\* trimmedBlock.startsWith('|') and separatorIndex > 0: the block is rendered as a table.
TakesTableBranch(t) ==
    CharAt(t, 1, "|") /\ SeparatorIndex(TableRows(t)) > 0

\* The callback of blocks.map: one block to its markup.
RenderBlock(block) ==
    LET t == Trim(block)
    IN IF t = <<>> THEN <<>>
       ELSE IF TakesTableBranch(t)
            THEN RenderTable(TableRows(t), SeparatorIndex(TableRows(t)))
       ELSE IF StartsWithAt(t, 1, <<"#", "#", "#", " ">>) THEN H3Open \o processInlines(From(t, 5)) \o H3Close
       ELSE IF StartsWithAt(t, 1, <<"#", "#", " ">>) THEN H2Open \o processInlines(From(t, 4)) \o H2Close
       ELSE IF StartsWithAt(t, 1, <<"#", " ">>) THEN H1Open \o processInlines(From(t, 3)) \o H1Close
       ELSE IF StartsWithAt(t, 1, <<">", " ">>)
            THEN QuoteOpen
                 \o processInlines(Join([k \in 1..Len(SplitLines(t, 1)) |->
                                            StripQuote(SplitLines(t, 1)[k])], <<" ">>))
                 \o QuoteClose
       ELSE IF IsBulletBlock(t)
            THEN UlOpen
                 \o RenderItems([k \in 1..Len(SplitLines(t, 1)) |-> StripBullet(SplitLines(t, 1)[k])])
                 \o UlClose
       ELSE IF IsNumberBlock(t)
            THEN OlOpen
                 \o RenderItems([k \in 1..Len(SplitLines(t, 1)) |-> StripNumber(SplitLines(t, 1)[k])])
                 \o OlClose
       ELSE RenderParagraph(t)

\* cleanMarkdown.split(/(\r?\n){2,}/).map(block => ...).join('')
RenderBlocks(clean) ==
    LET blocks == SplitBlocks(clean, 1)
    IN Concat([k \in 1..Len(blocks) |-> RenderBlock(blocks[k])])

parseMarkdownToHtml(markdown) == RenderBlocks(cleanMarkdown(markdown))

\* ------------------------------------------------------------------ parseMarkdownToHtml on reports

\* Most pieces in one report.
MaxPieces == 3

\* The pieces a report is put together from: plain text, a line break, a blank, a fence marker, an opening markdown fence,
\* a fenced snippet on lines of its own, a heading marker, a table row, a separator row, a row with one dash cell.
Pieces ==
    { <<"a">>,
      <<"\n">>,
      <<" ">>,
      <<Tick, Tick, Tick>>,
      <<Tick, Tick, Tick, "m", "a", "r", "k", "d", "o", "w", "n", "\n">>,
      <<"\n", Tick, Tick, Tick, "\n", "x", "\n", Tick, Tick, Tick, "\n">>,
      <<"#", "#", " ">>,
      <<"|", " ", "a", " ", "|">>,
      <<"|", "-", "-", "-", "|">>,
      <<"|", " ", "x", " ", "|", "-", "-", "-", "|">> }

\* The opening of a table element in the output.
TableTag ==
    <<"<", "t", "a", "b", "l", "e">>

\* The reports handed to parseMarkdownToHtml: up to MaxPieces pieces, one after the other.
MarkdownInputs == {Concat(ps) : ps \in UNION {[1..n -> Pieces] : n \in 1..MaxPieces}}

InitMarkdown ==
    /\ InitUI
    /\ pc = "ready"
    /\ input \in MarkdownInputs
    /\ output = <<>>

\* const cleanMarkdown = markdown.replace(...).trim()
CleanStep ==
    /\ pc = "ready"
    /\ output' = cleanMarkdown(input)
    /\ pc' = "cleaned"
    /\ UNCHANGED <<input, uiVars>>

\* return blocks.map(...).join('')
RenderStep ==
    /\ pc = "cleaned"
    /\ output' = RenderBlocks(output)
    /\ pc' = "done"
    /\ UNCHANGED <<input, uiVars>>

NextMarkdown == CleanStep \/ RenderStep

SpecMarkdown == InitMarkdown /\ [][NextMarkdown]_vars

\* A cell of dashes and optional colons only.
IsDashCell(cell) ==
    /\ cell # <<>>
    /\ \A k \in 1..Len(cell) : cell[k] \in {"-", ":"}
    /\ \E k \in 1..Len(cell) : cell[k] = "-"

\* A separator row: it has cells, and all of them are dash cells.
IsSeparatorRow(row) ==
    /\ Len(Cells(row)) >= 1
    /\ \A k \in 1..Len(Cells(row)) : IsDashCell(Cells(row)[k])

\* The text is one block: no run of two or more newlines splits it.
IsSingleBlock(clean) == clean # <<>> /\ NextBlockBreak(clean, 1) = 0

\* C3: a block that starts with "|" and has no separator row is rendered as a
\* paragraph, never as a table; a block is rendered as a table only when a separator
\* row exists at a row index greater than 0.
C3_NoSeparatorNoTable ==
    (pc = "done" /\ IsSingleBlock(cleanMarkdown(input)) /\ CharAt(cleanMarkdown(input), 1, "|")) =>
        LET rows == TableRows(cleanMarkdown(input))
        IN /\ (\A k \in 1..Len(rows) : ~IsSeparatorRow(rows[k])) =>
                 (StartsWithAt(output, 1, POpen) /\ Occurrences(output, TableTag) = {})
           /\ Occurrences(output, TableTag) # {} =>
                 \E k \in 2..Len(rows) : IsSeparatorRow(rows[k])

\* The whole text is wrapped in one surrounding fence.
IsWhollyFenced(markdown) ==
    LET t == Trim(markdown)
    IN /\ Len(t) >= 2 * Len(Fence)
       /\ StartsWithAt(t, 1, Fence)
       /\ StartsWithAt(t, Len(t) - Len(Fence) + 1, Fence)

\* C9: fence markers are removed only from a report wholly wrapped in one fence; for
\* any other report the text that reaches the block split is the trimmed input, its
\* fence markers intact.
C9_OnlySurroundingFenceStripped ==
    (pc = "cleaned" /\ ~IsWhollyFenced(input)) => output = Trim(input)

\* ------------------------------------------------------------------ analyzeTextContent: the Sources section

\* Most grounding chunks in one response.
MaxCitations == 3

\* reportText += `\n\n## Sources\n${uniqueSources.join('\n')}`
SourcesHeader ==
    <<"\n", "\n", "#", "#", " ", "S", "o", "u", "r", "c", "e", "s", "\n">>

\* An optional value: undefined, or a defined text.
Undefined == <<>>
Defined(text) == <<text>>

\* A grounding chunk: whether chunk.web is defined, and web.title and web.uri.
Chunk(web, title, uri) == [web |-> web, title |-> title, uri |-> uri]

\* The grounding chunks the provider can return.
Chunks ==
    { Chunk(TRUE, Defined(<<"A">>), Defined(<<"u", "1">>)),
      Chunk(TRUE, Defined(<<"B">>), Defined(<<"u", "1">>)),
      Chunk(TRUE, Undefined, Defined(<<"u", "2">>)),
      Chunk(TRUE, Defined(<<>>), Defined(<<"u", "1">>)),
      Chunk(TRUE, Defined(<<"B">>), Defined(<<>>)),
      Chunk(TRUE, Defined(<<"A">>), Defined(<<" ">>)),
      Chunk(TRUE, Defined(<<"A">>), Undefined),
      Chunk(FALSE, Undefined, Undefined) }

\* A response: response.text, and groundingChunks (undefined, or an array).
SourceInputs ==
    {[text |-> t, grounded |-> FALSE, chunks |-> <<>>] : t \in ReportTexts}
    \cup {[text |-> t, grounded |-> TRUE, chunks |-> cs] :
            t \in ReportTexts, cs \in UNION {[1..n -> Chunks] : n \in 0..MaxCitations}}

\* A text in a condition: '' and undefined are falsy.
Truthy(opt) == opt # Undefined /\ opt[1] # <<>>

\* .filter(web => web?.uri && web.uri.trim() !== '')
KeepsSource(c) == c.web /\ Truthy(c.uri) /\ Trim(c.uri[1]) # <<>>

\* .map(web => `[${web.title || web.uri}](${web.uri})`)
SourceEntry(c) ==
    <<"[">> \o (IF Truthy(c.title) THEN c.title[1] ELSE c.uri[1]) \o <<"]", "(">>
    \o c.uri[1] \o <<")">>

\* groundingChunks.map(chunk => chunk.web).filter(...).map(...)
Sources(chunks) ==
    LET kept == SelectSeq(chunks, KeepsSource)
    IN [k \in 1..Len(kept) |-> SourceEntry(kept[k])]

\* Mutant of UniqueSources: the sources are joined without the Set.
UniqueSourcesKeepAll(sources) == sources

\* [...new Set(sources)]: each value once, in the order of first insertion.
UniqueSources(sources) ==
    LET first == {k \in 1..Len(sources) : \A j \in 1..(k - 1) : sources[j] # sources[k]}
    IN [i \in 1..Cardinality(first) |-> sources[Nth(first, i)]]

\* analyzeTextContent from `let reportText = response.text` to `return reportText`.
AppendSources(response) ==
    IF response.grounded /\ Len(response.chunks) > 0
    THEN IF Len(Sources(response.chunks)) > 0
         THEN response.text \o SourcesHeader
              \o Join(UniqueSources(Sources(response.chunks)), <<"\n">>)
         ELSE response.text
    ELSE response.text

InitSources ==
    /\ InitUI
    /\ pc = "ready"
    /\ input \in SourceInputs
    /\ output = <<>>

\* The provider's response arrives and analyzeTextContent returns.
ReturnReport ==
    /\ pc = "ready"
    /\ output' = AppendSources(input)
    /\ pc' = "done"
    /\ UNCHANGED <<input, uiVars>>

SpecSources == InitSources /\ [][ReturnReport]_vars

\* A citation whose URI is missing, empty or whitespace-only.
HasBlankUri(c) == ~c.web \/ c.uri = Undefined \/ Trim(c.uri[1]) = <<>>

\* The lines of the appended Sources section, none if the report came back unchanged.
SourceLines ==
    IF output = input.text THEN <<>>
    ELSE SplitLines(From(output, Len(input.text) + Len(SourcesHeader) + 1), 1)

\* C5: the Sources section has no entry for a citation with a missing, empty or
\* whitespace-only URI, has each distinct `[title](uri)` string exactly once in the
\* order of first occurrence, and is appended only when some citation has a
\* non-blank URI; otherwise the report text is returned unchanged.
C5_SourcesSection ==
    pc = "done" =>
        LET cs == input.chunks
            valid == {k \in 1..Len(cs) : ~HasBlankUri(cs[k])}
            FirstOf(line) == Min({k \in valid : SourceEntry(cs[k]) = line})
        IN /\ valid = {} => output = input.text
           /\ valid # {} => StartsWithAt(output, 1, input.text \o SourcesHeader)
           /\ \A i \in 1..Len(SourceLines) :
                \E k \in valid : SourceEntry(cs[k]) = SourceLines[i]
           /\ \A k \in valid :
                Cardinality({i \in 1..Len(SourceLines) : SourceLines[i] = SourceEntry(cs[k])}) = 1
           /\ \A i, j \in 1..Len(SourceLines) :
                i < j => FirstOf(SourceLines[i]) < FirstOf(SourceLines[j])

\* C5 witness: two copies of one citation and a citation with an empty URI came back,
\* and the report carries the one entry.
C5_Witness ==
    /\ pc = "done"
    /\ input.chunks = << Chunk(TRUE, Defined(<<"A">>), Defined(<<"u", "1">>)),
                         Chunk(TRUE, Defined(<<"A">>), Defined(<<"u", "1">>)),
                         Chunk(TRUE, Defined(<<"B">>), Defined(<<>>)) >>
    /\ output = input.text \o SourcesHeader \o <<"[", "A", "]", "(", "u", "1", ")">>

====
